---------------------------- MODULE Spec2Model ----------------------------
(***************************************************************************)
(* A model of src/app.py (Shift Handover Pro): the text normaliser         *)
(* (clean_lines, pick_items), the briefing sentence (make_sbar_oneliner)   *)
(* and the two PDF layout routines (pdf_build_detailed,                    *)
(* pdf_build_one_page_condensed).                                          *)
(*                                                                         *)
(* Representation.                                                         *)
(*  - A Python str is a sequence of atoms; an atom is a TLA+ string that   *)
(*    stands for one character (" ", "\t", "\n", "-", BULLET, NBSP, "a")   *)
(*    or for a run of ordinary characters that neither starts nor ends     *)
(*    with a character any strip() of the program removes ("Cedar").       *)
(*    Str(t) is the Python string itself (the atoms concatenated).         *)
(*  - The module is ASCII: BULLET stands for U+2022, DASH for U+2014,      *)
(*    NBSP for U+00A0 (a character str.strip() removes, that is no line    *)
(*    boundary and is not in the strip set " \t-" + U+2022).               *)
(*  - None is the reserved one-atom text NONE.                             *)
(*  - Lengths are in tenths of a millimetre (mm == 10), so that 5.4 mm,    *)
(*    5.2 mm and 4.8 mm are integers and the comparisons are exact.        *)
(*  - Draw commands are 6-tuples <<op, a, b, c, d, s>>.  Colour, font and  *)
(*    line-width settings are constants of the program that no input       *)
(*    changes; they are left out of the command stream.                    *)
(***************************************************************************)
EXTENDS Integers, Sequences, FiniteSets, TLC

VARIABLES
    args,     \* the keyword arguments of the generation call in progress
    run,      \* the call's locals: pc, blk, y, page, pages, cur
    hist,     \* <<args, output>> of the calls completed so far
    tin,      \* text-function harness: the inputs
    tout      \* text-function harness: the results

vars == <<args, run, hist, tin, tout>>

----------------------------------------------------------------------------
(* Bounds of the model.                                                    *)

MaxLen == 4        \* atoms in a text given to the text functions
MaxN == 3          \* largest n given to pick_items
MaxLines == 46     \* lines typed into the longest section
MaxCalls == 3      \* generation calls in one behaviour

----------------------------------------------------------------------------
(* Characters and strings.                                                 *)

BULLET == "*"
DASH == "~"
NBSP == "_"
NONE == <<"\\None">>

\* str.strip() with no argument removes whitespace.
WS == {" ", "\t", "\n", NBSP}

\* the argument of ln.strip(" \t-" + U+2022) in clean_lines
STRIP_CHARS == {" ", "\t", "-", BULLET}

Min(a, b) == IF a < b THEN a ELSE b
Max(a, b) == IF a > b THEN a ELSE b

\* Recursions over a sequence split it in halves, to stay shallow.
RECURSIVE Str(_)
Str(t) ==
    IF t = <<>> THEN ""
    ELSE IF Len(t) = 1 THEN t[1]
    ELSE LET h == Len(t) \div 2 IN
         Str(SubSeq(t, 1, h)) \o Str(SubSeq(t, h + 1, Len(t)))

\* the concatenation of a sequence of sequences
RECURSIVE Flatten(_)
Flatten(ss) ==
    IF ss = <<>> THEN <<>>
    ELSE IF Len(ss) = 1 THEN ss[1]
    ELSE LET h == Len(ss) \div 2 IN
         Flatten(SubSeq(ss, 1, h)) \o Flatten(SubSeq(ss, h + 1, Len(ss)))

\* L and R with the last piece of L and the first of R joined
GluePieces(L, R) ==
    SubSeq(L, 1, Len(L) - 1) \o <<L[Len(L)] \o R[1]>> \o Tail(R)

RECURSIVE LStrip(_, _)
LStrip(t, S) == IF t # <<>> /\ Head(t) \in S THEN LStrip(Tail(t), S) ELSE t

RECURSIVE RStrip(_, _)
RStrip(t, S) ==
    IF t # <<>> /\ t[Len(t)] \in S THEN RStrip(SubSeq(t, 1, Len(t) - 1), S) ELSE t

\* str.strip(chars)
Strip(t, S) == RStrip(LStrip(t, S), S)

\* Python truthiness of an optional str: None and "" are falsy.
Truthy(t) == t # NONE /\ Str(t) # ""

\* text.split("\n")
RECURSIVE Pieces(_)
Pieces(t) ==
    IF t = <<>> THEN << <<>> >>
    ELSE IF Len(t) = 1 THEN (IF t[1] = "\n" THEN << <<>>, <<>> >> ELSE <<t>>)
    ELSE LET h == Len(t) \div 2 IN
         GluePieces(Pieces(SubSeq(t, 1, h)), Pieces(SubSeq(t, h + 1, Len(t))))

\* str.splitlines(): no empty last line after a final line boundary.
splitlines(t) ==
    IF t = <<>> THEN <<>>
    ELSE LET p == Pieces(t) IN
         IF p[Len(p)] = <<>> THEN SubSeq(p, 1, Len(p) - 1) ELSE p

Map_strip(ls) == [i \in 1..Len(ls) |-> Strip(ls[i], STRIP_CHARS)]

NonBlank(ln) == Str(Strip(ln, WS)) # ""

Filter_nonblank(ls) == SelectSeq(ls, NonBlank)

\* A plausible slip: the lines are stripped but the blank ones are kept.
clean_lines_keep_blank(text) ==
    IF ~Truthy(text) THEN <<>> ELSE Map_strip(splitlines(text))

clean_lines(text) ==
    IF ~Truthy(text) THEN <<>>
    ELSE Filter_nonblank(Map_strip(splitlines(text)))

\* items[:n]
Slice(items, n) ==
    IF n >= 0 THEN SubSeq(items, 1, Min(n, Len(items)))
    ELSE SubSeq(items, 1, Max(Len(items) + n, 0))

\* sep.join(items), as a Python string
RECURSIVE join(_, _)
join(sep, items) ==
    IF items = <<>> THEN ""
    ELSE IF Len(items) = 1 THEN Str(items[1])
    ELSE Str(items[1]) \o sep \o join(sep, Tail(items))

\* A plausible slip: one item too many is taken.
pick_items_off_by_one(text, n) ==
    LET items == clean_lines(text) IN
    IF items = <<>> THEN "none" ELSE join("; ", Slice(items, n + 1))

pick_items(text, n) ==
    LET items == clean_lines(text) IN
    IF items = <<>> THEN "none" ELSE join("; ", Slice(items, n))

\* What a call that raises returns in the model.
RAISED == "\\raised"

\* f"{v}" of an optional str
Fmt(v) == IF v = NONE THEN "None" ELSE Str(v)

\* A plausible slip: the escalation clause is appended unconditionally.
make_sbar_oneliner_always_escalate(area, shift, incidents, staffing, residents, tasks, escalation) ==
    IF escalation = NONE THEN RAISED
    ELSE
    LET s == (IF Truthy(area) THEN area ELSE <<"Area">>) \o <<" ">>
             \o (IF shift = NONE THEN <<"None">> ELSE shift) \o <<":", " ">>
        b == "incidents " \o pick_items(incidents, 2) \o ", staffing "
             \o pick_items(staffing, 2) \o "; "
        a == "concerns " \o pick_items(residents, 2) \o "; "
        r == "tasks " \o pick_items(tasks, 2)
             \o "; escalate: " \o Str(Strip(escalation, WS))
    IN Str(Strip(s \o <<b \o a \o r, ".">>, WS))

make_sbar_oneliner(area, shift, incidents, staffing, residents, tasks, escalation) ==
    IF escalation = NONE THEN RAISED   \* None.strip(): AttributeError
    ELSE
    LET s == (IF Truthy(area) THEN area ELSE <<"Area">>) \o <<" ">>
             \o (IF shift = NONE THEN <<"None">> ELSE shift) \o <<":", " ">>
        b == "incidents " \o pick_items(incidents, 2) \o ", staffing "
             \o pick_items(staffing, 2) \o "; "
        a == "concerns " \o pick_items(residents, 2) \o "; "
        r0 == "tasks " \o pick_items(tasks, 2)
        r == IF Str(Strip(escalation, WS)) # ""
             THEN r0 \o "; escalate: " \o Str(Strip(escalation, WS))
             ELSE r0
    IN Str(Strip(s \o <<b \o a \o r, ".">>, WS))

----------------------------------------------------------------------------
(* textwrap.wrap(text, width, break_long_words=False,                      *)
(* break_on_hyphens=False) of the standard library, on atoms.              *)

Spaces(n) == [i \in 1..n |-> " "]

\* the column of atom i under expandtabs(): the characters since the last
\* tab or line boundary (after a tab the column is a multiple of 8)
Column(t, i) ==
    LET resets == {j \in 1..(i - 1) : t[j] \in {"\t", "\n"}}
        r == IF resets = {} THEN 0
             ELSE CHOOSE j \in resets : \A k \in resets : k <= j
    IN Len(Str(SubSeq(t, r + 1, i - 1)))

\* expandtabs(), then every ASCII whitespace character becomes a space
Munge(t) ==
    Flatten([i \in 1..Len(t) |->
                IF t[i] = "\t" THEN Spaces(8 - (Column(t, i) % 8))
                ELSE IF t[i] = "\n" THEN <<" ">>
                ELSE <<t[i]>>])

JoinChunk(c, d) == [sp |-> c.sp, blank |-> c.blank /\ d.blank, s |-> c.s \o d.s]

\* L and R with the last chunk of L and the first of R joined
GlueChunks(L, R) ==
    SubSeq(L, 1, Len(L) - 1) \o <<JoinChunk(L[Len(L)], R[1])>> \o Tail(R)

\* the chunks: words and runs of spaces, alternating; a chunk is
\* [sp: a run of spaces, blank: chunk.strip() == '', s: its text]
RECURSIVE Chunks(_)
Chunks(t) ==
    IF t = <<>> THEN <<>>
    ELSE IF Len(t) = 1 THEN <<[sp |-> t[1] = " ", blank |-> t[1] \in WS, s |-> t[1]]>>
    ELSE LET h == Len(t) \div 2
             L == Chunks(SubSeq(t, 1, h))
             R == Chunks(SubSeq(t, h + 1, Len(t)))
         IN IF L[Len(L)].sp = R[1].sp THEN GlueChunks(L, R) ELSE L \o R

\* the number of leading chunks whose lengths sum to at most room
RECURSIVE Fit(_, _)
Fit(cs, room) ==
    IF cs # <<>> /\ Len(cs[1].s) <= room
    THEN 1 + Fit(Tail(cs), room - Len(cs[1].s))
    ELSE 0

ChunkText(cs) == Str([i \in 1..Len(cs) |-> cs[i].s])

\* TextWrapper._wrap_chunks: one line per round; emitted: a line exists already
RECURSIVE wrap_chunks(_, _, _)
wrap_chunks(cs, w, emitted) ==
    IF cs = <<>> THEN <<>>
    ELSE
    LET cs1 == IF cs[1].blank /\ emitted THEN Tail(cs) ELSE cs
        k0 == Fit(cs1, w)
        k == IF k0 = 0 /\ cs1 # <<>> THEN 1 ELSE k0     \* _handle_long_word
        kk == IF k > 0 /\ cs1[k].blank THEN k - 1 ELSE k  \* trailing blank dropped
    IN (IF kk > 0 THEN <<ChunkText(SubSeq(cs1, 1, kk))>> ELSE <<>>)
       \o wrap_chunks(SubSeq(cs1, k + 1, Len(cs1)), w, emitted \/ kk > 0)

wrap(text, w) == wrap_chunks(Chunks(Munge(text)), w, FALSE)

----------------------------------------------------------------------------
(* The canvas.  A run (the locals of one generation call) is a record      *)
(*   pc    where the call is: "header", "block", "footer", "save",         *)
(*         "closed" (bytes returned) or "raised" (an exception left it)    *)
(*   blk   the next block to draw, 1..6                                    *)
(*   y     the vertical cursor;  page  the page counter                    *)
(*   pages the pages emitted by showPage();  cur  the commands of the page *)
(*         being drawn.                                                    *)

mm == 10
width == 210 * mm      \* A4
height == 297 * mm

APP_NAME == "Shift Handover Pro"
APP_VERSION == "v1.0"
SUPPORT_EMAIL == "finlayajayi@rocketmail.com"

Cmd(op, a, b, c, d, s) == <<op, a, b, c, d, s>>
rect(x, y0, w, h) == Cmd("rect", x, y0, w, h, "")
roundRect(x, y0, w, h) == Cmd("roundRect", x, y0, w, h, "")
line(x1, y1, x2, y2) == Cmd("line", x1, y1, x2, y2, "")
drawString(x, y0, s) == Cmd("drawString", x, y0, 0, 0, s)
drawRightString(x, y0, s) == Cmd("drawRightString", x, y0, 0, 0, s)
drawImage(x, y0, w, h) == Cmd("drawImage", x, y0, w, h, "")

Draw(st, cmds) == [st EXCEPT !.cur = @ \o cmds]
Raise(st) == [st EXCEPT !.pc = "raised"]

\* Canvas.showPage(): the page being drawn is emitted and a new one begun.
showPage(st) == [st EXCEPT !.pages = Append(@, st.cur), !.cur = <<>>]

\* Canvas.save(): a page with pending commands is emitted first.
save(st) == [(IF st.cur # <<>> THEN showPage(st) ELSE st) EXCEPT !.pc = "closed"]

\* A logo is [kind |-> "none" | "bad" | "img", iw, ih]: no bytes, bytes that
\* ImageReader cannot decode, or an image of iw x ih pixels.
LogoTruthy(logo) == logo.kind # "none"

\* The commands _draw_logo_if_present adds.  A division by a zero size is
\* caught like a decoding error.  Scaled sizes are rounded down.
draw_logo_if_present(logo, x, y0, max_w, max_h) ==
    IF ~LogoTruthy(logo) THEN <<>>
    ELSE IF logo.kind = "bad" \/ logo.iw = 0 \/ logo.ih = 0 THEN <<>>
    ELSE LET byw == max_w * logo.ih <= max_h * logo.iw   \* max_w/iw <= max_h/ih
             w == IF byw THEN max_w ELSE (logo.iw * max_h) \div logo.ih
             h == IF byw THEN (logo.ih * max_w) \div logo.iw ELSE max_h
         IN <<drawImage(x, y0 - h, w, h)>>

\* A plausible slip: print-safe mode is ignored for the review fields.
pdf_field_ignoring_print_safe(print_safe, v) ==
    IF Truthy(v) THEN Str(Strip(v, WS)) ELSE ""

\* "" if print_safe else (v.strip() if v else "")
pdf_field(print_safe, v) ==
    IF print_safe THEN "" ELSE IF Truthy(v) THEN Str(Strip(v, WS)) ELSE ""

\* the "Reviewed by" line both footers share
reviewed_line(a, y0, mx) ==
    LET reviewed_by_pdf == pdf_field(a.print_safe, a.reviewed_by)
        review_date_pdf == pdf_field(a.print_safe, a.review_date)
        rb == IF reviewed_by_pdf # "" THEN reviewed_by_pdf ELSE DASH
        rd == IF review_date_pdf # "" THEN review_date_pdf ELSE DASH
    IN IF reviewed_by_pdf # "" \/ review_date_pdf # ""
       THEN <<drawRightString(width - mx, y0,
                              "Reviewed by: " \o rb \o " " \o BULLET \o " " \o rd)>>
       ELSE <<>>

identity_line == APP_NAME \o " " \o APP_VERSION \o " " \o BULLET \o " Support: " \o SUPPORT_EMAIL

----------------------------------------------------------------------------
(* pdf_build_detailed                                                      *)

d_margin_x == 16 * mm
d_margin_top == 16 * mm
d_margin_bottom == 16 * mm
d_content_w == width - 2 * d_margin_x

footer(st, a) ==
    Draw(st, <<line(d_margin_x, d_margin_bottom + 12 * mm,
                    width - d_margin_x, d_margin_bottom + 12 * mm),
               drawString(d_margin_x, d_margin_bottom + 6 * mm,
                          "Generated: " \o Fmt(a.created_at)),
               drawRightString(width - d_margin_x, d_margin_bottom + 6 * mm,
                               "Page " \o ToString(st.page)),
               drawString(d_margin_x, d_margin_bottom + 25, identity_line)>>
             \o reviewed_line(a, d_margin_bottom + 25, d_margin_x))

new_page(st) == [showPage(st) EXCEPT !.y = height - d_margin_top]

draw_compact_header(st, a) ==
    [Draw(st, <<rect(0, height - 10 * mm, width, 10 * mm),
                drawString(d_margin_x, height - 7 * mm, "Shift Handover"),
                drawRightString(width - d_margin_x, height - 7 * mm,
                    (IF Truthy(a.area) THEN Str(a.area) ELSE DASH)
                    \o " " \o BULLET \o " " \o Fmt(a.shift)
                    \o " " \o BULLET \o " " \o Fmt(a.created_at))>>)
     EXCEPT !.y = height - 10 * mm - 10 * mm]

\* A plausible slip: the zone kept for the footer is left out of the test.
ensure_space_no_footer_zone(st, a, required) ==
    IF st.y - required < d_margin_bottom
    THEN draw_compact_header(
             [new_page(footer(st, a)) EXCEPT !.page = st.page + 1], a)
    ELSE st

\* A plausible slip: the page counter is not advanced at a page break.
ensure_space_same_page_number(st, a, required) ==
    IF st.y - required < d_margin_bottom + 20 * mm
    THEN draw_compact_header(new_page(footer(st, a)), a)
    ELSE st

ensure_space(st, a, required) ==
    IF st.y - required < d_margin_bottom + 20 * mm
    THEN draw_compact_header(
             [new_page(footer(st, a)) EXCEPT !.page = st.page + 1], a)
    ELSE st

draw_header_bar(st, a) ==
    LET bar_h == 20 * mm
        s1 == Draw(st, <<rect(0, height - bar_h, width, bar_h)>>
                       \o draw_logo_if_present(a.logo_bytes, d_margin_x,
                                               height - 4 * mm, 26 * mm, 14 * mm)
                       \o <<drawString(d_margin_x
                                + (IF LogoTruthy(a.logo_bytes) THEN 30 * mm ELSE 0),
                                height - 135, "Shift Handover")>>)
    IN IF a.org_name = NONE THEN Raise(s1)     \* None.strip(): AttributeError
       ELSE LET brand == IF Str(Strip(a.org_name, WS)) # ""
                         THEN Str(Strip(a.org_name, WS)) ELSE APP_NAME
            IN [Draw(s1, <<drawRightString(width - d_margin_x, height - 133, brand)>>)
                EXCEPT !.y = height - bar_h - 8 * mm]

\* per item: first + wrapped[0], then cont + each further wrapped line
item_lines(items, w, first, cont) ==
    Flatten([k \in 1..Len(items) |->
                LET wrapped == wrap(items[k], w) IN
                [i \in 1..Len(wrapped) |->
                    (IF i = 1 THEN first ELSE cont) \o wrapped[i]]])

\* A plausible slip: an empty section gets an empty card.
bullet_lines_no_placeholder(items_text) ==
    item_lines(clean_lines(items_text), 92, BULLET \o " ", "   ")

\* the bullet_lines of draw_section
bullet_lines(items_text) ==
    LET items == clean_lines(items_text) IN
    IF items = <<>> THEN <<"None reported.">>
    ELSE item_lines(items, 92, BULLET \o " ", "   ")

\* the title, the card and its lines, and the cursor moved below the card
draw_card(st, title, lines) ==
    LET y1 == st.y - 6 * mm
        card_padding_top == 6 * mm
        line_h == 52
        card_h == card_padding_top + Len(lines) * line_h + 6 * mm
        tx == d_margin_x + 7 * mm
        ty == y1 - card_padding_top
    IN [Draw(st, <<drawString(d_margin_x, st.y, title),
                   roundRect(d_margin_x, y1 - card_h, d_content_w, card_h)>>
                 \o [i \in 1..Len(lines) |-> drawString(tx, ty - i * line_h, lines[i])])
        EXCEPT !.y = y1 - (card_h + 8 * mm)]

draw_section(st, a, title, items_text) ==
    LET lines == bullet_lines(items_text)
        required == (10 + 8 + 18) * mm + Len(lines) * 54
    IN draw_card(ensure_space(st, a, required), title, lines)

\* the lines of draw_notes
note_lines(text) ==
    LET note == IF Str(Strip(text, WS)) # "" THEN Strip(text, WS) ELSE <<"None.">>
        wrapped == wrap(note, 100)
    IN IF wrapped # <<>> THEN wrapped ELSE <<Str(note)>>

draw_notes(st, a, title, text) ==
    IF text = NONE THEN Raise(st)              \* None.strip(): AttributeError
    ELSE LET lines == note_lines(text)
             required == (10 + 8 + 18) * mm + Len(lines) * 54
         IN draw_card(ensure_space(st, a, required), title, lines)

TITLES == <<"Incidents today", "Staffing issues", "Residents of concern",
            "Tasks outstanding", "Escalation / Notes", "SBAR one-liner">>

\* the text argument of the i-th block
BlockText(a, i) ==
    CASE i = 1 -> a.incidents [] i = 2 -> a.staffing [] i = 3 -> a.residents
      [] i = 4 -> a.tasks [] i = 5 -> a.escalation [] OTHER -> a.sbar

\* the i-th of the six calls of lines 426-431
detailed_block(st, a, i) ==
    IF i <= 4 THEN draw_section(st, a, TITLES[i], BlockText(a, i))
    ELSE draw_notes(st, a, TITLES[i], BlockText(a, i))

----------------------------------------------------------------------------
(* pdf_build_one_page_condensed                                            *)

c_margin_x == 14 * mm
c_margin_top == 14 * mm
c_margin_bottom == 14 * mm
c_content_w == width - 2 * c_margin_x

title_bar(st, a) ==
    LET bar_h == 16 * mm
        s1 == Draw(st, <<rect(0, height - bar_h, width, bar_h)>>
                       \o draw_logo_if_present(a.logo_bytes, c_margin_x,
                                               height - 3 * mm, 22 * mm, 12 * mm)
                       \o <<drawString(c_margin_x
                                + (IF LogoTruthy(a.logo_bytes) THEN 26 * mm ELSE 0),
                                height - 113, "Shift Handover (Condensed)")>>)
    IN IF a.org_name = NONE THEN Raise(s1)     \* None.strip(): AttributeError
       ELSE LET brand == IF Str(Strip(a.org_name, WS)) # ""
                         THEN Str(Strip(a.org_name, WS)) ELSE APP_NAME
            IN Draw(s1, <<drawRightString(width - c_margin_x, height - 11 * mm, brand)>>)

\* lines 533-544: the title bar, then the Area / Shift / Generated strip
condensed_header(st, a) ==
    LET s1 == title_bar(st, a)
        y0 == height - c_margin_top - 18 * mm
    IN IF s1.pc = "raised" THEN s1
       ELSE [Draw(s1, <<rect(c_margin_x, y0 - 10 * mm, c_content_w, 10 * mm),
                        drawString(c_margin_x + 4 * mm, y0 - 66,
                            "Area: " \o (IF Truthy(a.area) THEN Str(a.area) ELSE DASH)),
                        drawString(c_margin_x + 70 * mm, y0 - 66,
                            "Shift: " \o Fmt(a.shift)),
                        drawRightString(width - c_margin_x - 4 * mm, y0 - 66,
                            "Generated: " \o Fmt(a.created_at))>>)
             EXCEPT !.y = y0 - 16 * mm]

footer_condensed(st, a) ==
    Draw(st, <<line(c_margin_x, c_margin_bottom + 11 * mm,
                    width - c_margin_x, c_margin_bottom + 11 * mm),
               drawString(c_margin_x, c_margin_bottom + 6 * mm,
                          "Generated: " \o Fmt(a.created_at)),
               drawString(c_margin_x, c_margin_bottom + 25, identity_line)>>
             \o reviewed_line(a, c_margin_bottom + 25, c_margin_x))

MORE == "(more in app)"

\* A plausible slip: the marker replaces the last kept line.
block_lines_marker_inside(text, max_lines) ==
    LET items == clean_lines(text)
        lines == IF items = <<>> THEN <<"- None.">>
                 ELSE item_lines(items, 95, "- ", "  ")
    IN IF Len(lines) > max_lines
       THEN SubSeq(lines, 1, max_lines - 1) \o <<MORE>>
       ELSE lines

\* the lines of block: wrapped, then cut to max_lines plus the marker
block_lines(text, max_lines) ==
    LET items == clean_lines(text)
        lines == IF items = <<>> THEN <<"- None.">>
                 ELSE item_lines(items, 95, "- ", "  ")
    IN IF Len(lines) > max_lines
       THEN SubSeq(lines, 1, max_lines) \o <<MORE>>
       ELSE lines

\* A plausible slip: the condensed block breaks the page when space is short.
block_with_page_break(st, title, text, max_lines) ==
    LET lines == block_lines(text, max_lines)
        s0 == IF st.y - (Len(lines) * 48 + 13 * mm) < c_margin_bottom + 11 * mm
              THEN [showPage(st) EXCEPT !.y = height - c_margin_top]
              ELSE st
        y1 == s0.y - 5 * mm
        h == Len(lines) * 48 + 8 * mm
        ty == y1 - 6 * mm
    IN [Draw(s0, <<drawString(c_margin_x, s0.y, title),
                   roundRect(c_margin_x, y1 - h, c_content_w, h)>>
                 \o [i \in 1..Len(lines) |->
                        drawString(c_margin_x + 6 * mm, ty - (i - 1) * 48, lines[i])])
        EXCEPT !.y = y1 - h - 6 * mm]

block(st, title, text, max_lines) ==
    LET lines == block_lines(text, max_lines)
        y1 == st.y - 5 * mm
        h == Len(lines) * 48 + 8 * mm
        ty == y1 - 6 * mm
    IN [Draw(st, <<drawString(c_margin_x, st.y, title),
                   roundRect(c_margin_x, y1 - h, c_content_w, h)>>
                 \o [i \in 1..Len(lines) |->
                        drawString(c_margin_x + 6 * mm, ty - (i - 1) * 48, lines[i])])
        EXCEPT !.y = y1 - h - 6 * mm]

\* the max_lines of the six calls of lines 546-551
CAPS == <<6, 5, 6, 6, 3, 2>>

condensed_block(st, a, i) == block(st, TITLES[i], BlockText(a, i), CAPS[i])

----------------------------------------------------------------------------
(* One generation call, step by step.                                      *)

\* A plausible slip: the page counter lives outside the call and is kept.
new_run_shared_page(a, old) ==
    [pc |-> "header", blk |-> 1,
     y |-> height - (IF a.profile = "detailed" THEN d_margin_top ELSE c_margin_top),
     page |-> old.page, pages |-> <<>>, cur |-> <<>>]

\* the locals at entry: a new canvas, the cursor at the top margin, page 1;
\* nothing of an earlier call (old) is read
new_run(a, old) ==
    [pc |-> "header", blk |-> 1,
     y |-> height - (IF a.profile = "detailed" THEN d_margin_top ELSE c_margin_top),
     page |-> 1, pages |-> <<>>, cur |-> <<>>]

IdleRun == [pc |-> "idle", blk |-> 1, y |-> 0, page |-> 0, pages |-> <<>>, cur |-> <<>>]

Returned(st) == st.pc \in {"closed", "raised"}

header_step(st, a) ==
    LET s1 == IF a.profile = "detailed" THEN draw_header_bar(st, a)
              ELSE condensed_header(st, a)
    IN IF s1.pc = "raised" THEN s1 ELSE [s1 EXCEPT !.pc = "block"]

\* A plausible slip: a section with no items is left out of the document.
block_step_skip_empty(st, a) ==
    LET empty == st.blk <= 4 /\ clean_lines(BlockText(a, st.blk)) = <<>>
        s1 == IF empty THEN st
              ELSE IF a.profile = "detailed" THEN detailed_block(st, a, st.blk)
              ELSE condensed_block(st, a, st.blk)
    IN IF s1.pc = "raised" THEN s1
       ELSE IF st.blk = 6 THEN [s1 EXCEPT !.pc = "footer"]
       ELSE [s1 EXCEPT !.blk = st.blk + 1]

block_step(st, a) ==
    LET s1 == IF a.profile = "detailed" THEN detailed_block(st, a, st.blk)
              ELSE condensed_block(st, a, st.blk)
    IN IF s1.pc = "raised" THEN s1
       ELSE IF st.blk = 6 THEN [s1 EXCEPT !.pc = "footer"]
       ELSE [s1 EXCEPT !.blk = st.blk + 1]

footer_step(st, a) ==
    [(IF a.profile = "detailed" THEN footer(st, a) ELSE footer_condensed(st, a))
     EXCEPT !.pc = "save"]

\* c.save() (detailed);  c.showPage(); c.save() (condensed)
save_step(st, a) ==
    IF a.profile = "detailed" THEN save(st) ELSE save(showPage(st))

Step(st, a) ==
    CASE st.pc = "header" -> header_step(st, a)
      [] st.pc = "block" -> block_step(st, a)
      [] st.pc = "footer" -> footer_step(st, a)
      [] st.pc = "save" -> save_step(st, a)
      [] OTHER -> st

RECURSIVE RunFrom(_, _)
RunFrom(st, a) == IF Returned(st) THEN st ELSE RunFrom(Step(st, a), a)

\* what the call returns: the pages of the document, or an exception
Out(st) == [raised |-> st.pc = "raised",
            pages |-> IF st.pc = "raised" THEN <<>> ELSE st.pages]

\* pdf_build_detailed(**a) / pdf_build_one_page_condensed(**a), as a function
pdf_build(a) == Out(RunFrom(new_run(a, IdleRun), a))

----------------------------------------------------------------------------
(* Inputs.                                                                 *)

\* n one-word lines
Lines(n) == [i \in 1..(2 * n - 1) |-> IF i % 2 = 1 THEN "x" ELSE "\n"]

W46 == "abcdefghijklmnopqrstuvwxyzabcdefghijklmnopqrst"

\* a paragraph of k words of 46 characters: two to a line at width 95 or 100
Words(k) == [i \in 1..(2 * k - 1) |-> IF i % 2 = 1 THEN W46 ELSE " "]

W96 == W46 \o "/" \o W46 \o "/us"

\* a paragraph of k words of 96 characters: one to a line at width 100
LongWords(k) == [i \in 1..(2 * k - 1) |-> IF i % 2 = 1 THEN W96 ELSE " "]

\* two items typed as bullets; the first wraps (three lines at width 92, two at 95)
Mixed == <<BULLET, " ">> \o Words(3) \o <<"\n", "-", " ", "y", " ">>

\* a text of markers and whitespace only: no item is left after cleaning
Blank == <<" ", "-", "\n", BULLET, "\t", "\n">>

\* a text of whitespace only: empty after trimming
WsOnly == <<" ", "\n", "\t">>

NoLogo == [kind |-> "none", iw |-> 0, ih |-> 0]
BadLogo == [kind |-> "bad", iw |-> 0, ih |-> 0]
WideLogo == [kind |-> "img", iw |-> 400, ih |-> 100]

Stamp == <<"04 Nov 2026, 22:43">>

DefaultArgs ==
    [profile |-> "detailed", logo_bytes |-> NoLogo, org_name |-> <<"Org">>,
     area |-> <<"Cedar", " ", "Wing">>, shift |-> <<"Night">>, created_at |-> Stamp,
     completed_by |-> <<"Carer">>, reviewed_by |-> <<"Nurse">>, review_date |-> <<>>,
     incidents |-> <<>>, staffing |-> <<>>, residents |-> <<>>, tasks |-> <<>>,
     escalation |-> <<>>, sbar |-> Words(3), print_safe |-> FALSE]

SectionTexts(profile, i) ==
    IF profile = "detailed"
    THEN {Lines(0), Lines(9), Lines(37), Lines(MaxLines)}
    ELSE {Lines(0), Lines(CAPS[i]), Lines(CAPS[i] + 1), Lines(MaxLines)}

EscalationTexts(profile) ==
    IF profile = "detailed" THEN {<<>>, WsOnly, Words(12)}
    ELSE {<<>>, Words(2 * CAPS[5]), Words(2 * CAPS[5] + 1)}

SbarTexts(profile) ==
    IF profile = "detailed" THEN {Words(3), LongWords(MaxLines)}
    ELSE {Words(3), Words(2 * CAPS[6]), Words(2 * CAPS[6] + 1)}

\* Spec: every length of every block, both profiles, the metadata fixed
LayoutArgs ==
    UNION {
      {[DefaultArgs EXCEPT !.profile = p, !.incidents = t1, !.staffing = t2,
                           !.residents = t3, !.tasks = t4, !.escalation = t5,
                           !.sbar = t6] :
          t1 \in SectionTexts(p, 1) \cup {Mixed, Blank}, t2 \in SectionTexts(p, 2),
          t3 \in SectionTexts(p, 3), t4 \in SectionTexts(p, 4),
          t5 \in EscalationTexts(p), t6 \in SbarTexts(p)}
      : p \in {"detailed", "condensed"}}

\* SpecMeta: every metadata field, present, blank or None; the texts few
MetaArgs ==
    {[DefaultArgs EXCEPT !.profile = p, !.logo_bytes = lg, !.org_name = org,
                         !.area = ar, !.completed_by = cb, !.reviewed_by = rb,
                         !.review_date = rd, !.print_safe = ps,
                         !.incidents = t1, !.escalation = t5, !.sbar = t6] :
        p \in {"detailed", "condensed"}, lg \in {NoLogo, BadLogo, WideLogo},
        org \in {NONE, <<" ">>, <<"Org">>}, ar \in {NONE, <<"Cedar", " ", "Wing">>},
        cb \in {NONE, <<"Carer">>}, rb \in {NONE, <<" ">>, <<" ", "Nurse">>},
        rd \in {NONE, <<>>, <<"4", " ", "Nov">>}, ps \in BOOLEAN,
        t1 \in {NONE, Lines(37)}, t5 \in {NONE, <<>>, Words(3)},
        t6 \in {NONE, Words(3)}}

\* SpecCalls: a few requests, made again and again
CallArgs ==
    {[DefaultArgs EXCEPT !.profile = p, !.incidents = t1, !.org_name = org] :
        p \in {"detailed", "condensed"}, t1 \in {Lines(2), Lines(37)},
        org \in {NONE, <<"Org">>}}

Alphabet == {"a", "none", " ", "\t", "-", BULLET, NBSP, "\n"}

RECURSIVE TextsOfLen(_)
TextsOfLen(k) ==
    IF k = 0 THEN {<<>>}
    ELSE {Append(t, c) : t \in TextsOfLen(k - 1), c \in Alphabet}

Texts(maxlen) == UNION {TextsOfLen(k) : k \in 0..maxlen}

NoText == [kind |-> "none"]
NoResult == [done |-> FALSE, items |-> <<>>, picked |-> "", sbar |-> ""]

\* SpecText: the inputs of clean_lines / pick_items, and of make_sbar_oneliner
PickInputs ==
    {[kind |-> "pick", text |-> t, n |-> n] :
        t \in Texts(MaxLen) \cup {NONE}, n \in (-1)..MaxN}

SbarInputs ==
    {[kind |-> "sbar", area |-> ar, shift |-> <<"Night">>, incidents |-> t1,
      staffing |-> t2, residents |-> t3, tasks |-> t4, escalation |-> es] :
        ar \in {NONE, <<>>, <<" ">>, <<" ", "Cedar">>, <<"Cedar", " ", "Wing">>},
        t1 \in Texts(MaxLen - 2), t2 \in {<<>>, Lines(3)}, t3 \in {NONE, Lines(2)},
        t4 \in {<<>>, <<"-", " ", "Obs", " ", "due">>},
        es \in {NONE, <<>>, <<" ">>, <<" ", "call", " ", "GP", " ">>}}

----------------------------------------------------------------------------
(* The state machine.                                                      *)

Record(st) ==
    IF Returned(st) THEN Append(hist, [args |-> args, out |-> Out(st)]) ELSE hist

DrawHeader ==
    /\ run.pc = "header"
    /\ run' = header_step(run, args)
    /\ hist' = Record(run')
    /\ UNCHANGED <<args, tin, tout>>

DrawBlock ==
    /\ run.pc = "block"
    /\ run' = block_step(run, args)
    /\ hist' = Record(run')
    /\ UNCHANGED <<args, tin, tout>>

DrawFooter ==
    /\ run.pc = "footer"
    /\ run' = footer_step(run, args)
    /\ hist' = Record(run')
    /\ UNCHANGED <<args, tin, tout>>

Save ==
    /\ run.pc = "save"
    /\ run' = save_step(run, args)
    /\ hist' = Record(run')
    /\ UNCHANGED <<args, tin, tout>>

\* the next request: the handler runs again, with the same or other arguments
Restart ==
    /\ Returned(run)
    /\ Len(hist) < MaxCalls
    /\ \E a \in CallArgs :
          /\ args' = a
          /\ run' = new_run(a, run)
    /\ UNCHANGED <<hist, tin, tout>>

\* the text functions applied to the harness inputs
Apply ==
    /\ tin.kind # "none"
    /\ ~tout.done
    /\ tout' = IF tin.kind = "pick"
               THEN [done |-> TRUE, items |-> clean_lines(tin.text),
                     picked |-> pick_items(tin.text, tin.n), sbar |-> ""]
               ELSE [done |-> TRUE, items |-> clean_lines(tin.incidents),
                     picked |-> pick_items(tin.incidents, 2),
                     sbar |-> make_sbar_oneliner(tin.area, tin.shift, tin.incidents,
                                  tin.staffing, tin.residents, tin.tasks,
                                  tin.escalation)]
    /\ UNCHANGED <<args, run, hist, tin>>

InitRun(domain) ==
    /\ args \in domain
    /\ run = new_run(args, IdleRun)
    /\ hist = <<>>
    /\ tin = NoText
    /\ tout = NoResult

Init == InitRun(LayoutArgs)
InitMeta == InitRun(MetaArgs)
InitCalls == InitRun(CallArgs)

InitText ==
    /\ args = DefaultArgs
    /\ run = IdleRun
    /\ hist = <<>>
    /\ tin \in PickInputs \cup SbarInputs
    /\ tout = NoResult

Next == DrawHeader \/ DrawBlock \/ DrawFooter \/ Save
NextCalls == Next \/ Restart
NextText == Apply

Spec == Init /\ [][Next]_vars
SpecMeta == InitMeta /\ [][Next]_vars
SpecCalls == InitCalls /\ [][NextCalls]_vars
SpecText == InitText /\ [][NextText]_vars

----------------------------------------------------------------------------
(* The text functions (SpecText).                                          *)

PickDone == tout.done /\ tin.kind = "pick"
SbarDone == tout.done /\ tin.kind = "sbar"

\* the first k of the items, joined by "; "
FirstJoined(items, k) == join("; ", SubSeq(items, 1, k))

\* C4, as claimed: for every text and every n, pick_items returns "none" if
\* and only if clean(text) is empty, and otherwise the first
\* min(n, len(items)) items joined by "; ".
C4_Original ==
    PickDone =>
        /\ (tout.picked = "none") <=> (tout.items = <<>>)
        /\ tout.items # <<>> =>
              tout.picked = FirstJoined(tout.items, Min(tin.n, Len(tout.items)))

\* C4, amended: for every text and every n >= 0, pick_items returns "none"
\* if clean(text) is empty, and otherwise exactly the first
\* min(n, len(items)) items, in order, joined by "; "; that result reads
\* "none" only when clean(text) is empty or the joined items spell it.
C4_PickItems ==
    (PickDone /\ tin.n >= 0) =>
        /\ tout.items = <<>> => tout.picked = "none"
        /\ tout.items # <<>> =>
              tout.picked = FirstJoined(tout.items, Min(tin.n, Len(tout.items)))
        /\ tout.picked = "none" =>
              \/ tout.items = <<>>
              \/ FirstJoined(tout.items, Min(tin.n, Len(tout.items))) = "none"

\* two items, of which n = 1 keeps the first
C4_Witness ==
    PickDone /\ tin.n = 1 /\ Len(tout.items) = 2 /\ tout.picked = "a"

\* The reading of clean the claim gives: every line stripped of whitespace,
\* hyphens and bullets at both ends, the lines left empty discarded.
CleanAsClaimed(text) ==
    IF text = NONE \/ text = <<>> THEN <<>>
    ELSE LET ls == splitlines(text)
             stripped == [i \in 1..Len(ls) |-> Strip(ls[i], WS \cup {"-", BULLET})]
             NonEmpty(ln) == ln # <<>>
         IN SelectSeq(stripped, NonEmpty)

\* C5, as claimed: clean_lines returns exactly the lines of the text, each
\* stripped of whitespace, hyphens and bullet characters at both ends, the
\* empty ones discarded, in order; no item is empty or whitespace-only and
\* None and "" give the empty sequence.
C5_Clean ==
    PickDone =>
        /\ tout.items = CleanAsClaimed(tin.text)
        /\ \A i \in 1..Len(tout.items) : Str(Strip(tout.items[i], WS)) # ""
        /\ (tin.text = NONE \/ tin.text = <<>>) => tout.items = <<>>

\* the template of the briefing sentence after "<area> <shift>"
SbarBody(t) ==
    ": incidents " \o pick_items(t.incidents, 2)
    \o ", staffing " \o pick_items(t.staffing, 2)
    \o "; concerns " \o pick_items(t.residents, 2)
    \o "; tasks " \o pick_items(t.tasks, 2)
    \o (IF Strip(t.escalation, WS) # <<>>
        THEN "; escalate: " \o Str(Strip(t.escalation, WS)) ELSE "")
    \o "."

\* the scenario of the claim: Cedar Wing, Night, two incidents, the rest empty
SbarScenario ==
    make_sbar_oneliner(<<"Cedar Wing">>, <<"Night">>,
                       <<"Fall in lounge", "\n", "Medication delay">>,
                       <<>>, <<>>, <<>>, <<>>)
    = "Cedar Wing Night: incidents Fall in lounge; Medication delay, staffing none; concerns none; tasks none."

\* C6, as claimed: the sentence is "<area> <shift>: incidents ..., staffing
\* ...; concerns ...; tasks ..." plus "; escalate: <trimmed>" iff that is not
\* empty, plus ".", with no other branching on the inputs.
C6_Original ==
    (SbarDone /\ tin.area # NONE /\ tin.escalation # NONE) =>
        tout.sbar = Str(tin.area) \o " " \o Str(tin.shift) \o SbarBody(tin)

\* C6, amended: whenever the call returns, the sentence is the template with
\* the literal "Area" in place of an empty or null area and with leading
\* whitespace removed; the escalation clause is present iff the escalation
\* is not empty after trimming; the call returns for every escalation that
\* is a string; the scenario gives the sentence of the claim.
C6_Sentence ==
    /\ SbarScenario
    /\ SbarDone =>
          /\ tin.escalation # NONE => tout.sbar # RAISED
          /\ tout.sbar # RAISED =>
                tout.sbar =
                    Str(LStrip((IF tin.area = NONE \/ tin.area = <<>>
                                THEN <<"Area">> ELSE tin.area)
                               \o <<" ">> \o tin.shift, WS))
                    \o SbarBody(tin)

\* an empty area and an escalation that trimming shortens
C6_Witness ==
    /\ SbarDone
    /\ tin.area = <<>>
    /\ tin.escalation = <<" ", "call", " ", "GP", " ">>
    /\ tin.incidents = <<"a", "\n">>
    /\ tout.sbar = "Area Night: incidents a, staffing x; x; concerns x; x; tasks Obs due; escalate: call GP."

----------------------------------------------------------------------------
(* The detailed profile (Spec).                                            *)

Detailed == args.profile = "detailed"
Condensed == args.profile = "condensed"

\* the wrapped lines of block i of the detailed profile
DetailedLines(i) ==
    IF i <= 4 THEN bullet_lines(BlockText(args, i)) ELSE note_lines(BlockText(args, i))

\* command c is the title of block i (titles are drawn at the left margin,
\* card lines 7 mm to the right of it)
IsDetailedTitle(c, i) ==
    c[1] = "drawString" /\ c[2] = d_margin_x /\ c[6] = TITLES[i]

\* the commands cs are exactly block i: its title, its card, its lines
IsDetailedBlock(cs, i) ==
    LET lines == DetailedLines(i) IN
    /\ Len(cs) = Len(lines) + 2
    /\ IsDetailedTitle(cs[1], i)
    /\ cs[2][1] = "roundRect"
    /\ \A k \in 1..Len(lines) :
          cs[k + 2][1] = "drawString" /\ cs[k + 2][6] = lines[k]

\* the commands cs end with the footer of page n
EndsWithFooter(cs, n) ==
    \E k \in 1..Len(cs) :
        /\ Len(cs) - k \in {3, 4}
        /\ cs[k][1] = "line"
        /\ cs[k + 2] = drawRightString(width - d_margin_x, d_margin_bottom + 6 * mm,
                                       "Page " \o ToString(n))

\* the commands cs begin with the compact header
BeginsWithCompactHeader(cs) ==
    /\ Len(cs) >= 3
    /\ cs[1] = rect(0, height - 10 * mm, width, 10 * mm)
    /\ cs[2] = drawString(d_margin_x, height - 7 * mm, "Shift Handover")
    /\ cs[3][1] = "drawRightString"

\* C1: in the detailed profile, for every block, the fit test
\* (required = 36 mm + 5.4 mm x lines against margin_bottom + 20 mm) is made
\* before anything of the block is drawn; when it fails, the page is closed
\* with its footer and a new page with the compact header is begun before
\* the title; title and card lines are always on one and the same page.
C1_FitTestBeforeBlock ==
    [][(Detailed /\ run.pc = "block" /\ run'.pc # "raised") =>
        LET i == run.blk
            n == Len(DetailedLines(i)) + 2
            required == 36 * mm + 54 * Len(DetailedLines(i))
            short == run.y - required < d_margin_bottom + 20 * mm
            drawn == SubSeq(run'.cur, Len(run'.cur) - n + 1, Len(run'.cur))
            before == SubSeq(run'.cur, 1, Len(run'.cur) - n)
        IN /\ Len(run'.cur) >= n
           /\ IsDetailedBlock(drawn, i)
           /\ \A p \in 1..Len(run'.pages) : \A k \in 1..Len(run'.pages[p]) :
                 ~IsDetailedTitle(run'.pages[p][k], i)
           /\ short =>
                 /\ Len(run'.pages) = Len(run.pages) + 1
                 /\ SubSeq(run'.pages, 1, Len(run.pages)) = run.pages
                 /\ LET closed == run'.pages[Len(run'.pages)] IN
                       /\ SubSeq(closed, 1, Len(run.cur)) = run.cur
                       /\ EndsWithFooter(closed, run.page)
                 /\ BeginsWithCompactHeader(before) /\ Len(before) = 3
                 /\ run'.page = run.page + 1
           /\ ~short =>
                 /\ run'.pages = run.pages
                 /\ before = run.cur
                 /\ run'.page = run.page
      ]_vars

\* a block drawn first on a page that a page break opened
C1_Witness ==
    /\ Detailed
    /\ run.pc = "block"
    /\ run.blk = 4
    /\ Len(run.pages) = 2
    /\ Len(run.cur) > 4
    /\ IsDetailedTitle(run.cur[4], 3)
    /\ run.cur[4][3] = height - 20 * mm

----------------------------------------------------------------------------
(* The condensed profile (Spec).                                           *)

IsCondensedTitle(c, i) ==
    c[1] = "drawString" /\ c[2] = c_margin_x /\ c[6] = TITLES[i]

\* C2: in the condensed profile the document has exactly one page: no page
\* is emitted before the six blocks and the footer are drawn, and the one
\* page emitted then holds the six titles, in order, and the footer.
C2_OnePage ==
    Condensed =>
        /\ run.pc \in {"header", "block", "footer", "save"} => run.pages = <<>>
        /\ run.pc = "closed" =>
              /\ Len(run.pages) = 1
              /\ run.cur = <<>>
              /\ LET pg == run.pages[1] IN
                 \E f \in 1..Len(pg) :
                    /\ pg[f][1] = "line"
                    /\ \A i \in 1..6 : \E k \in 1..(f - 1) : IsCondensedTitle(pg[k], i)
                    /\ \A i \in 1..5 : \A k, l \in 1..(f - 1) :
                          (IsCondensedTitle(pg[k], i) /\ IsCondensedTitle(pg[l], i + 1))
                             => k < l

\* the longest input of every block, on one page
C2_Witness ==
    /\ Condensed
    /\ run.pc = "closed"
    /\ Len(run.pages) = 1
    /\ \A i \in 1..4 : BlockText(args, i) = Lines(MaxLines)
    /\ args.escalation = Words(2 * 3 + 1)

\* the wrapped lines of block i of the condensed profile, before the cut
CondensedWrapped(i) ==
    LET items == clean_lines(BlockText(args, i)) IN
    IF items = <<>> THEN <<"- None.">> ELSE item_lines(items, 95, "- ", "  ")

\* the texts of the card lines among the commands cs of one block
RenderedLines(cs) == [k \in 1..(Len(cs) - 2) |-> cs[k + 2][6]]

\* C3: in the condensed profile, block i with cap m (6, 5, 6, 6, 3, 2) and L
\* wrapped lines renders the first m lines and then "(more in app)" if
\* L > m, and all L lines unchanged, without the marker, if L <= m.
C3_Truncation ==
    [][(Condensed /\ run.pc = "block") =>
        LET i == run.blk
            m == <<6, 5, 6, 6, 3, 2>>[i]
            wrapped == CondensedWrapped(i)
            L == Len(wrapped)
            drawn == SubSeq(run'.cur, Len(run.cur) + 1, Len(run'.cur))
            rendered == RenderedLines(drawn)
        IN /\ SubSeq(run'.cur, 1, Len(run.cur)) = run.cur
           /\ Len(drawn) >= 3
           /\ IsCondensedTitle(drawn[1], i)
           /\ drawn[2][1] = "roundRect"
           /\ \A k \in 3..Len(drawn) : drawn[k][1] = "drawString"
           /\ L > m => rendered = SubSeq(wrapped, 1, m) \o <<"(more in app)">>
           /\ L <= m => rendered = wrapped
           /\ (\E k \in 1..Len(rendered) : rendered[k] = "(more in app)") <=> L > m
      ]_vars

\* the Staffing block cut to its cap of 5 and the Tasks block at its cap of 6
C3_Witness ==
    /\ Condensed
    /\ run.pc = "footer"
    /\ args.staffing = Lines(6)
    /\ args.tasks = Lines(6)
    /\ \E k \in 1..Len(run.cur) :
          /\ IsCondensedTitle(run.cur[k], 2)
          /\ Len(run.cur) >= k + 8
          /\ run.cur[k + 6][6] = "- x"
          /\ run.cur[k + 7][6] = "(more in app)"
          /\ IsCondensedTitle(run.cur[k + 8], 3)
    /\ \E k \in 1..Len(run.cur) :
          /\ IsCondensedTitle(run.cur[k], 4)
          /\ Len(run.cur) >= k + 8
          /\ run.cur[k + 7][6] = "- x"
          /\ IsCondensedTitle(run.cur[k + 8], 5)

----------------------------------------------------------------------------
(* Metadata: print-safe mode, missing fields, the logo (SpecMeta).         *)

\* the "Reviewed by" line: the only right-aligned string 2.5 mm above the
\* bottom margin
IsReviewedLine(c) ==
    c[1] = "drawRightString"
    /\ c[3] = (IF Detailed THEN d_margin_bottom ELSE c_margin_bottom) + 25

NotReviewedLine(c) == ~IsReviewedLine(c)

\* the pages without their "Reviewed by" lines
WithoutReviewed(pages) == [p \in 1..Len(pages) |-> SelectSeq(pages[p], NotReviewedLine)]

HasReviewed(page) == \E k \in 1..Len(page) : IsReviewedLine(page[k])

\* v is a string that is not empty after trimming
NonEmptyTrimmed(v) == v # NONE /\ Strip(v, WS) # <<>>

\* C7: the same request with printSafe false and with printSafe true gives
\* the same pages, blocks, lines and page breaks; the two outputs differ
\* only in the footer's "Reviewed by" line, which is present iff printSafe
\* is false and a reviewer field is non-empty after trimming; with printSafe
\* true the output does not depend on completed-by, reviewed-by, review-date.
C7_PrintSafe ==
    Returned(run) =>
        LET mine == Out(run)
            twin == pdf_build([args EXCEPT !.print_safe = ~args.print_safe])
            blank == pdf_build([args EXCEPT !.completed_by = <<>>,
                                            !.reviewed_by = <<>>,
                                            !.review_date = <<>>])
        IN /\ mine.raised = twin.raised
           /\ WithoutReviewed(mine.pages) = WithoutReviewed(twin.pages)
           /\ \A p \in 1..Len(mine.pages) :
                 HasReviewed(mine.pages[p]) <=>
                    /\ ~args.print_safe
                    /\ NonEmptyTrimmed(args.reviewed_by) \/ NonEmptyTrimmed(args.review_date)
           /\ args.print_safe => mine = blank

\* a print-safe document of several pages for a request that names a reviewer
C7_Witness ==
    /\ run.pc = "closed"
    /\ Detailed
    /\ args.print_safe
    /\ args.reviewed_by = <<" ", "Nurse">>
    /\ args.review_date = <<"4", " ", "Nov">>
    /\ Len(run.pages) >= 2
    /\ \A p \in 1..Len(run.pages) : ~HasReviewed(run.pages[p])

\* C8: a request whose optional metadata or text fields are None is
\* normalised to safe defaults and completes without raising.
C8_NeverRaises == run.pc # "raised"

\* C9: with a logo that cannot be decoded the call raises nothing, draws no
\* image, and draws the header text, every block and the footer exactly as
\* for the same request without a logo.
C9_BadLogoLikeNoLogo ==
    (Returned(run) /\ args.logo_bytes = BadLogo) =>
        /\ \A p \in 1..Len(run.pages) : \A k \in 1..Len(run.pages[p]) :
              run.pages[p][k][1] # "drawImage"
        /\ Out(run) = pdf_build([args EXCEPT !.logo_bytes = NoLogo])

----------------------------------------------------------------------------
(* Repeated calls (SpecCalls).                                             *)

\* C10: two calls with identical arguments (the timestamp among them) give
\* identical output, whatever calls were made before or in between.
C10_SameArgsSameOutput ==
    \A i, j \in 1..Len(hist) :
        hist[i].args = hist[j].args => hist[i].out = hist[j].out

\* a request of several pages made twice, another request in between
C10_Witness ==
    /\ Len(hist) = 3
    /\ hist[1].args = hist[3].args
    /\ hist[2].args # hist[1].args
    /\ ~hist[2].out.raised
    /\ Len(hist[1].out.pages) >= 2
    /\ hist[3].out = hist[1].out

----------------------------------------------------------------------------
(* The stages of a run (Spec).                                             *)

\* everything drawn so far, the emitted pages first
AllCmds(st) == Flatten(st.pages) \o st.cur

\* command c is a block title of the profile in use
IsTitle(c) ==
    /\ c[1] = "drawString"
    /\ c[2] = (IF Detailed THEN d_margin_x ELSE c_margin_x)
    /\ \E i \in 1..6 : c[6] = TITLES[i]

\* command c is the bar of the full header of the profile in use
IsHeaderBar(c) ==
    c = (IF Detailed THEN rect(0, height - 20 * mm, width, 20 * mm)
         ELSE rect(0, height - 16 * mm, width, 16 * mm))

\* command c is the rule of a footer (nothing else draws a line)
IsFooterRule(c) == c[1] = "line"

\* the number of blocks the run has drawn
BlocksDrawn ==
    IF run.pc = "header" THEN 0
    ELSE IF run.pc \in {"block", "raised"} THEN run.blk - 1
    ELSE 6

\* the stages as the drawn commands show them
StagesInOrder ==
    LET all == AllCmds(run)
        titles == SelectSeq(all, IsTitle)
    IN /\ run.pc = "header" => all = <<>>
       /\ run.pc \in {"block", "footer", "save", "closed"} =>
             /\ IsHeaderBar(all[1])
             /\ Len(SelectSeq(all, IsHeaderBar)) = 1
       /\ [k \in 1..Len(titles) |-> titles[k][6]] = SubSeq(TITLES, 1, BlocksDrawn)
       /\ run.pc \in {"block", "footer"} =>
             Len(SelectSeq(all, IsFooterRule)) = Len(run.pages)
       /\ run.pc \in {"save", "closed"} =>
             \E f \in 1..Len(all) :
                /\ IsFooterRule(all[f])
                /\ Len(all) - f \in {2, 3, 4}
                /\ \A k \in f..Len(all) : ~IsTitle(all[k])
                /\ Len(SelectSeq(SubSeq(all, 1, f - 1), IsTitle)) = 6
       /\ run.pc = "closed" => run.cur = <<>> /\ ~ENABLED Next

\* one step of the run: the next stage, and nothing drawn is taken back
NextStage ==
    /\ \/ run'.pc = "raised"
       \/ run.pc = "header" /\ run'.pc = "block" /\ run'.blk = 1
       \/ run.pc = "block" /\ run.blk < 6 /\ run'.pc = "block" /\ run'.blk = run.blk + 1
       \/ run.pc = "block" /\ run.blk = 6 /\ run'.pc = "footer"
       \/ run.pc = "footer" /\ run'.pc = "save"
       \/ run.pc = "save" /\ run'.pc = "closed"
    /\ LET old == AllCmds(run)
           new == AllCmds(run')
       IN /\ Len(new) >= Len(old)
          /\ SubSeq(new, 1, Len(old)) = old
          /\ run'.pc # "closed" => Len(new) > Len(old)

\* C11: every run goes header -> block 1 -> ... -> block 6 -> footer ->
\* closed: the full header is the first thing drawn and is drawn once, the
\* six titles appear once each in the fixed order whatever the input, the
\* last footer comes after the last block, and a closed document takes no
\* further step.
C11_Stages == []StagesInOrder /\ [][NextStage]_vars

\* a closed detailed document of several pages whose first section is empty
C11_Witness ==
    /\ Detailed
    /\ run.pc = "closed"
    /\ args.incidents = Lines(0)
    /\ args.tasks = Lines(37)
    /\ Len(run.pages) >= 3
    /\ LET titles == SelectSeq(AllCmds(run), IsTitle) IN
          [k \in 1..6 |-> titles[k][6]] = TITLES

----------------------------------------------------------------------------
(* The pages of the detailed profile (Spec).                               *)

\* command c is the page number of a footer
IsPageNumber(c) ==
    /\ c[1] = "drawRightString"
    /\ c[2] = width - d_margin_x
    /\ c[3] = d_margin_bottom + 6 * mm

\* C12: in the detailed profile every emitted page holds exactly one footer,
\* its last commands; the footer of the i-th page reads "Page i"; every
\* page after the first begins with the compact header (the first with the
\* full header); the finished document has as many pages as the page
\* counter says and nothing is left undrawn.
C12_PagesFinalized ==
    Detailed =>
        /\ \A p \in 1..Len(run.pages) :
              LET pg == run.pages[p] IN
              /\ Len(SelectSeq(pg, IsFooterRule)) = 1
              /\ Len(SelectSeq(pg, IsPageNumber)) = 1
              /\ EndsWithFooter(pg, p)
              /\ p > 1 => BeginsWithCompactHeader(pg)
              /\ p = 1 => IsHeaderBar(pg[1])
              /\ p > 1 => \A k \in 1..Len(pg) : ~IsHeaderBar(pg[k])
        /\ run.pc \in {"block", "footer"} =>
              /\ run.page = Len(run.pages) + 1
              /\ SelectSeq(run.cur, IsFooterRule) = <<>>
              /\ run.page > 1 => BeginsWithCompactHeader(run.cur)
        /\ run.pc = "closed" => Len(run.pages) = run.page /\ run.cur = <<>>

\* a finished document of four pages, two of them closed by an overflow
C12_Witness ==
    /\ Detailed
    /\ run.pc = "closed"
    /\ Len(run.pages) = 4
    /\ args.incidents = Lines(9)
    /\ EndsWithFooter(run.pages[1], 1)
    /\ EndsWithFooter(run.pages[4], 4)
    /\ BeginsWithCompactHeader(run.pages[4])

----------------------------------------------------------------------------
(* Empty blocks (Spec).                                                    *)

\* the texts of the card lines of the block a step has just drawn: the
\* strings that follow its title and its card at the end of the page
CardLinesDrawn(cur, i) ==
    LET k == CHOOSE k \in 1..Len(cur) : IsTitle(cur[k]) /\ cur[k][6] = TITLES[i]
    IN [j \in 1..(Len(cur) - k - 1) |-> cur[k + 1 + j][6]]

\* this step draws a block whose text leaves nothing to show
DrawsEmptyList == run.pc = "block" /\ clean_lines(BlockText(args, run.blk)) = <<>>
DrawsEmptyNote == run.pc = "block" /\ Strip(BlockText(args, run.blk), WS) = <<>>

\* C13 as stated: in both profiles a section with an empty cleaned list
\* shows the one line "None reported."; in the detailed profile an empty
\* escalation/notes text shows "None.".
C13_Original ==
    [][/\ (DrawsEmptyList /\ (Condensed \/ run.blk <= 4)) =>
            CardLinesDrawn(run'.cur, run.blk) = <<"None reported.">>
       /\ (DrawsEmptyNote /\ Detailed /\ run.blk >= 5) =>
            CardLinesDrawn(run'.cur, run.blk) = <<"None.">>
      ]_vars

\* C13, amended: a block with nothing to show has a card of exactly one
\* line: "None reported." for the four sections of the detailed profile,
\* "None." for its two notes blocks, "- None." for every block of the
\* condensed profile.
C13_Placeholder ==
    [][/\ (DrawsEmptyList /\ Detailed /\ run.blk <= 4) =>
            CardLinesDrawn(run'.cur, run.blk) = <<"None reported.">>
       /\ (DrawsEmptyNote /\ Detailed /\ run.blk >= 5) =>
            CardLinesDrawn(run'.cur, run.blk) = <<"None.">>
       /\ (DrawsEmptyList /\ Condensed) =>
            CardLinesDrawn(run'.cur, run.blk) = <<"- None.">>
      ]_vars

\* a detailed run past a section of markers only and a note of whitespace
C13_Witness ==
    /\ Detailed
    /\ run.pc = "footer"
    /\ args.incidents = Blank
    /\ args.escalation = WsOnly
    /\ \E k \in 1..Len(run.cur) :
          /\ IsDetailedTitle(run.cur[k], 1)
          /\ run.cur[k + 2][6] = "None reported."
          /\ IsDetailedTitle(run.cur[k + 3], 2)
    /\ \E k \in 1..Len(run.cur) :
          /\ IsDetailedTitle(run.cur[k], 5)
          /\ run.cur[k + 2][6] = "None."
          /\ IsDetailedTitle(run.cur[k + 3], 6)

----------------------------------------------------------------------------
(* Cards and the footer (Spec).                                            *)

\* the cards drawn so far (only cards are rounded rectangles); the third
\* field of a card is its bottom edge
IsCard(c) == c[1] = "roundRect"
Cards == SelectSeq(AllCmds(run), IsCard)

\* C14: in the detailed profile the bottom edge of every card, with or
\* without a page break before it, is at or above margin_bottom + 20 mm, the
\* zone kept for the footer, however many lines the block has.
C14_CardsAboveFooterZone ==
    Detailed => \A k \in 1..Len(Cards) : Cards[k][3] >= d_margin_bottom + 20 * mm

\* C15: in the detailed profile every emitted page holds at least one block
\* title (a page break comes only after a block was drawn on the page), so
\* no page is a header and a footer alone.
C15_NoPageWithoutBlock ==
    Detailed => \A p \in 1..Len(run.pages) :
                   \E k \in 1..Len(run.pages[p]) : IsTitle(run.pages[p][k])

\* C16: in the condensed profile the cursor after the sixth block is at or
\* above the footer rule at margin_bottom + 11 mm, and the bottom edge of
\* every card is too: no card reaches the footer or leaves the page.
C16_BlocksAboveFooter ==
    Condensed =>
        /\ run.pc \in {"footer", "save", "closed"} =>
              run.y >= c_margin_bottom + 11 * mm
        /\ \A k \in 1..Len(Cards) : Cards[k][3] >= c_margin_bottom + 11 * mm

============================================================================
